---------------------------- MODULE Spec2Model ----------------------------
(***************************************************************************)
(* A model of taglib/ape/apetag.cpp: the APE tag's item store, its key     *)
(* validator, the item-record parser, the renderer, the property bridge    *)
(* and the read-from-file lifecycle.                                       *)
(*                                                                         *)
(* Strings are sequences of code points (0..255), byte vectors sequences   *)
(* of bytes (0..255).  Offsets into byte vectors are 0-based as in the     *)
(* source; the sequence index of offset o is o + 1.                        *)
(***************************************************************************)
EXTENDS Integers, Sequences, FiniteSets, TLC

VARIABLES
    itemListMap,   \* d->itemListMap: upper-cased key -> Item
    footer,        \* d->footer: [tagSize, itemCount, headerPresent]
    file,          \* d->file: the bytes of the bound file, or NoFile
    footerLocation,\* d->footerLocation
    data,          \* the buffer parse() walks
    pos,           \* parse(): pos
    idx,           \* parse(): i
    pc,            \* where the tag is: the position inside parse(), or "ready"
    trace,         \* log of the records parse() looked at, and of read()'s seek
    call,          \* the last public call: its name, arguments and result
    out,           \* the last render(): its bytes, and the store a fresh tag parses from them
    layout         \* how the buffer in data was assembled: its records, in order

vars == <<itemListMap, footer, file, footerLocation, data, pos, idx, pc, trace, call, out, layout>>

----------------------------------------------------------------------------
(* Sequence and byte-vector helpers *)

Min(a, b) == IF a < b THEN a ELSE b
Max(a, b) == IF a > b THEN a ELSE b

\* ByteVector::mid(index, length): the bytes from offset index, at most length of them
mid(v, index, length) ==
    IF index >= Len(v) THEN << >>
    ELSE SubSeq(v, index + 1, Min(Len(v), index + length))

\* ByteVector::mid(index): to the end
midToEnd(v, index) == mid(v, index, Len(v))

\* ByteVector::find(byte, offset): offset of the first occurrence at or after offset, -1 if none
find(v, byte, offset) ==
    LET hits == {o \in offset..(Len(v) - 1) : v[o + 1] = byte}
    IN  IF hits = {} THEN -1 ELSE CHOOSE o \in hits : \A p \in hits : o <= p

\* ByteVector::toUInt(offset, mostSignificantByteFirst = false): little-endian, 32 bits;
\* fewer than four bytes left are read as a shorter number.  TLC's integers
\* end at 2^31 - 1: a word of 2^31 or more is read as 2^31 - 1.  Every word read here
\* is only compared with buffer sizes, file lengths and counts far below that, or
\* subtracted from them, so the outcome of each comparison is the one of the real word.
toUInt(v, offset) ==
    LET n == Min(4, Max(0, Len(v) - offset))
        byteAt(k) == IF k < n THEN v[offset + k + 1] ELSE 0
    IN  IF byteAt(3) >= 128 THEN 2147483647
        ELSE byteAt(0) + byteAt(1) * 256 + byteAt(2) * 65536 + byteAt(3) * 16777216

\* ByteVector::fromUInt(value, mostSignificantByteFirst = false)
fromUInt(n) ==
    << n % 256, (n \div 256) % 256, (n \div 65536) % 256, (n \div 16777216) % 256 >>

\* String::upper(): only a..z change
upperChar(c) == IF c >= 97 /\ c <= 122 THEN c - 32 ELSE c
upper(s) == SubSeq([k \in 1..Len(s) |-> upperChar(s[k])], 1, Len(s))

\* String::data(String::UTF8) for code points below 256: a code point below 128 is
\* its own byte, one above becomes two bytes
RECURSIVE toUTF8From(_, _)
toUTF8From(s, k) ==
    IF k > Len(s) THEN << >>
    ELSE IF s[k] < 128 THEN << s[k] >> \o toUTF8From(s, k + 1)
    ELSE << 192 + (s[k] \div 64), 128 + (s[k] % 64) >> \o toUTF8From(s, k + 1)

\* (a string of ASCII alone is copied in one piece, whatever its length)
toUTF8(s) ==
    IF \A k \in 1..Len(s) : s[k] < 128 THEN SubSeq(s, 1, Len(s)) ELSE toUTF8From(s, 1)

\* String(bytes, String::UTF8) for one- and two-byte sequences; a malformed
\* byte decodes to itself
RECURSIVE fromUTF8(_)
fromUTF8(v) ==
    IF v = << >> THEN << >>
    ELSE LET c == Head(v)
         IN  IF c >= 192 /\ c < 224 /\ Len(v) >= 2 /\ v[2] >= 128 /\ v[2] < 192
             THEN << ((c - 192) * 64 + (v[2] - 128)) % 256 >> \o fromUTF8(Tail(Tail(v)))
             ELSE << c >> \o fromUTF8(Tail(v))

\* String(bytes, String::Latin1): each byte is its code point
fromLatin1(v) == v

\* operator< on String: lexicographic on code points
RECURSIVE LexLess(_, _)
LexLess(a, b) ==
    IF b = << >> THEN FALSE
    ELSE IF a = << >> THEN TRUE
    ELSE IF Head(a) # Head(b) THEN Head(a) < Head(b)
    ELSE LexLess(Tail(a), Tail(b))

\* the keys of a Map in iteration order
RECURSIVE KeysInOrder(_)
KeysInOrder(S) ==
    IF S = {} THEN << >>
    ELSE LET least == CHOOSE k \in S : \A o \in S \ {k} : LexLess(k, o)
         IN  << least >> \o KeysInOrder(S \ {least})

\* Map::erase, Map::insert / operator[]=
MapErase(m, k) == [x \in (DOMAIN m) \ {k} |-> m[x]]
MapPut(m, k, v) == [x \in (DOMAIN m) \cup {k} |-> IF x = k THEN v ELSE m[x]]
EmptyMap == [x \in {} |-> << >>]

\* StringList::toString(separator = " ")
RECURSIVE StringList_toString(_)
StringList_toString(l) ==
    IF l = << >> THEN << >>
    ELSE IF Len(l) = 1 THEN l[1]
    ELSE l[1] \o << 32 >> \o StringList_toString(Tail(l))

----------------------------------------------------------------------------
(* Key names *)

K_ID3   == <<73, 68, 51>>
K_TAG   == <<84, 65, 71>>
K_OGGS  == <<79, 71, 71, 83>>
K_MP    == <<77, 80, 43>>
K_TITLE == <<84, 73, 84, 76, 69>>
K_ARTIST == <<65, 82, 84, 73, 83, 84>>
K_ALBUM == <<65, 76, 66, 85, 77>>
K_COMMENT == <<67, 79, 77, 77, 69, 78, 84>>
K_GENRE == <<71, 69, 78, 82, 69>>
K_YEAR  == <<89, 69, 65, 82>>
K_TRACK == <<84, 82, 65, 67, 75>>
K_TRACKNUMBER == <<84, 82, 65, 67, 75, 78, 85, 77, 66, 69, 82>>
K_DATE  == <<68, 65, 84, 69>>
K_ALBUMARTIST == <<65, 76, 66, 85, 77, 65, 82, 84, 73, 83, 84>>
K_ALBUM_ARTIST == <<65, 76, 66, 85, 77, 32, 65, 82, 84, 73, 83, 84>>
K_DISCNUMBER == <<68, 73, 83, 67, 78, 85, 77, 66, 69, 82>>
K_DISC  == <<68, 73, 83, 67>>
K_REMIXER == <<82, 69, 77, 73, 88, 69, 82>>
K_MIXARTIST == <<77, 73, 88, 65, 82, 84, 73, 83, 84>>
K_RELEASESTATUS == <<82, 69, 76, 69, 65, 83, 69, 83, 84, 65, 84, 85, 83>>
K_MB_ALBUMSTATUS == <<77, 85, 83, 73, 67, 66, 82, 65, 73, 78, 90, 95, 65, 76, 66, 85, 77, 83, 84, 65, 84, 85, 83>>
K_RELEASETYPE == <<82, 69, 76, 69, 65, 83, 69, 84, 89, 80, 69>>
K_MB_ALBUMTYPE == <<77, 85, 83, 73, 67, 66, 82, 65, 73, 78, 90, 95, 65, 76, 66, 85, 77, 84, 89, 80, 69>>

----------------------------------------------------------------------------
(* Key Validator *)

MinKeyLength == 2
MaxKeyLength == 255

invalidKeys == {K_ID3, K_TAG, K_OGGS, K_MP}

isKeyValid(key) ==
    /\ \A k \in 1..Len(key) : ~(key[k] < 32 \/ key[k] > 126)
    /\ \A k \in invalidKeys : upper(fromLatin1(key)) # k

checkKey(key) ==
    IF Len(key) < MinKeyLength \/ Len(key) > MaxKeyLength
    THEN FALSE
    ELSE isKeyValid(toUTF8(key))

----------------------------------------------------------------------------
(* APE::Item *)

\* Item(): an empty text item
DefaultItem == [key |-> << >>, type |-> "Text", text |-> << >>, value |-> << >>, readOnly |-> FALSE]

\* Item(key, String value)
Item_fromString(key, value) ==
    [key |-> key, type |-> "Text", text |-> << value >>, value |-> << >>, readOnly |-> FALSE]

\* Item(key, StringList values)
Item_fromStringList(key, values) ==
    [key |-> key, type |-> "Text", text |-> values, value |-> << >>, readOnly |-> FALSE]

\* Item(key, ByteVector value, binary = true)
Item_fromData(key, value) ==
    [key |-> key, type |-> "Binary", text |-> << >>, value |-> value, readOnly |-> FALSE]

\* Item::isEmpty()
Item_isEmpty(item) ==
    IF item.type = "Text"
    THEN item.text = << >> \/ (Len(item.text) = 1 /\ item.text[1] = << >>)
    ELSE item.value = << >>

\* Item::values()
Item_values(item) == item.text

\* Item::toString()
Item_toString(item) ==
    IF item.type = "Text" /\ ~Item_isEmpty(item) THEN item.text[1] ELSE << >>

\* Item::appendValue(value)
Item_appendValue(item, value) ==
    [item EXCEPT !.type = "Text", !.text = Append(@, value), !.value = << >>]

\* the type's two bits in the flags word
TypeBits(type) == CASE type = "Text" -> 0 [] type = "Binary" -> 1 [] type = "Locator" -> 2 [] OTHER -> 3
TypeOfBits(n) == CASE n = 0 -> "Text" [] n = 1 -> "Binary" [] n = 2 -> "Locator" [] OTHER -> "Reserved"

\* the values of a text item joined by NUL
RECURSIVE JoinNul(_)
JoinNul(l) ==
    IF l = << >> THEN << >>
    ELSE IF Len(l) = 1 THEN toUTF8(l[1])
    ELSE toUTF8(l[1]) \o << 0 >> \o JoinNul(Tail(l))

\* ByteVectorList::split(v, '\0'): the pieces between NULs; a piece after the
\* last NUL is kept only when it is not empty
RECURSIVE SplitNul(_)
SplitNul(v) ==
    LET o == find(v, 0, 0)
    IN  IF o < 0 THEN (IF v = << >> THEN << >> ELSE << v >>)
        ELSE << mid(v, 0, o) >> \o SplitNul(midToEnd(v, o + 1))

\* Item::render(): nothing for an empty item, else length, flags, key, NUL, value
Item_render(item) ==
    IF Item_isEmpty(item) THEN << >>
    ELSE LET val == IF item.type = "Text" THEN JoinNul(item.text) ELSE item.value
             flags == (IF item.readOnly THEN 1 ELSE 0) + 2 * TypeBits(item.type)
         IN  fromUInt(Len(val)) \o fromUInt(flags) \o item.key \o << 0 >> \o val

\* Item::parse(data): the record at the start of data
Item_parse(bytes) ==
    IF Len(bytes) < 11 THEN DefaultItem
    ELSE LET valueLength == toUInt(bytes, 0)
             flags == toUInt(bytes, 4)
             nul == find(bytes, 0, 8)
             key == fromLatin1(mid(bytes, 8, IF nul < 0 THEN Len(bytes) ELSE nul - 8))
             value == mid(bytes, 8 + Len(key) + 1, valueLength)
             type == TypeOfBits((flags \div 2) % 4)
         IN  [key |-> key,
              type |-> type,
              text |-> IF type = "Text"
                       THEN SubSeq([k \in 1..Len(SplitNul(value)) |-> fromUTF8(SplitNul(value)[k])],
                                   1, Len(SplitNul(value)))
                       ELSE << >>,
              value |-> IF type = "Text" THEN << >> ELSE value,
              readOnly |-> (flags % 2 = 1)]

----------------------------------------------------------------------------
(* Item store *)

removeItem(m, key) == MapErase(m, upper(key))

\* setItem() that stores under any key
setItem_NoCheck(m, key, item) == MapPut(m, upper(key), item)

setItem(m, key, item) ==
    IF ~checkKey(key) THEN m ELSE MapPut(m, upper(key), item)

addValue(m, key, value, replace) ==
    LET m1 == IF replace THEN removeItem(m, key) ELSE m
    IN  IF value = << >> THEN m1
        ELSE IF upper(key) \in DOMAIN m1 /\ m1[upper(key)].type = "Text"
             THEN [m1 EXCEPT ![upper(key)] = Item_appendValue(@, value)]
             ELSE setItem(m1, key, Item_fromString(key, value))

setData(m, key, value) ==
    LET m1 == removeItem(m, key)
    IN  IF value = << >> THEN m1 ELSE setItem(m1, key, Item_fromData(key, value))

isEmpty(m) == DOMAIN m = {}

\* Map::value(key): the item, or a default-constructed one
MapValue(m, key) == IF key \in DOMAIN m THEN m[key] ELSE DefaultItem

----------------------------------------------------------------------------
(* Typed accessors *)

\* a getter that reads the item's first value
TypedString_First(m, key) == Item_toString(MapValue(m, key))

TypedString(m, key) ==
    LET value == MapValue(m, key)
    IN  IF Item_isEmpty(value) THEN << >> ELSE StringList_toString(Item_values(value))

title(m)   == TypedString(m, K_TITLE)
artist(m)  == TypedString(m, K_ARTIST)
album(m)   == TypedString(m, K_ALBUM)
comment(m) == TypedString(m, K_COMMENT)
genre(m)   == TypedString(m, K_GENRE)

\* String::toInt(): the leading decimal digits
RECURSIVE toIntFrom(_, _)
toIntFrom(s, acc) ==
    IF s = << >> \/ Head(s) < 48 \/ Head(s) > 57 THEN acc
    ELSE toIntFrom(Tail(s), acc * 10 + (Head(s) - 48))
toInt(s) == toIntFrom(s, 0)

\* String::number(i)
RECURSIVE number(_)
number(i) == IF i < 10 THEN << 48 + i >> ELSE number(i \div 10) \o << 48 + (i % 10) >>

TypedNumber(m, key) ==
    LET value == MapValue(m, key)
    IN  IF Item_isEmpty(value) THEN 0 ELSE toInt(Item_toString(value))

year(m)  == TypedNumber(m, K_YEAR)
track(m) == TypedNumber(m, K_TRACK)

setTitle(m, s)   == addValue(m, K_TITLE, s, TRUE)
setArtist(m, s)  == addValue(m, K_ARTIST, s, TRUE)
setAlbum(m, s)   == addValue(m, K_ALBUM, s, TRUE)
setComment(m, s) == addValue(m, K_COMMENT, s, TRUE)
setGenre(m, s)   == addValue(m, K_GENRE, s, TRUE)
setYear(m, i)  == IF i = 0 THEN removeItem(m, K_YEAR) ELSE addValue(m, K_YEAR, number(i), TRUE)
setTrack(m, i) == IF i = 0 THEN removeItem(m, K_TRACK) ELSE addValue(m, K_TRACK, number(i), TRUE)

----------------------------------------------------------------------------
(* Property bridge *)

\* <<usual, APE>>
keyConversions ==
    << << K_TRACKNUMBER, K_TRACK >>,
       << K_DATE, K_YEAR >>,
       << K_ALBUMARTIST, K_ALBUM_ARTIST >>,
       << K_DISCNUMBER, K_DISC >>,
       << K_REMIXER, K_MIXARTIST >>,
       << K_RELEASESTATUS, K_MB_ALBUMSTATUS >>,
       << K_RELEASETYPE, K_MB_ALBUMTYPE >> >>

\* PropertyMap: upper-cased key -> StringList.  contains, insert (which appends
\* to the values of a key already present) and erase normalise the key.
PM_contains(p, key) == upper(key) \in DOMAIN p
PM_insert(p, key, values) ==
    IF upper(key) \in DOMAIN p
    THEN [p EXCEPT ![upper(key)] = @ \o values]
    ELSE MapPut(p, upper(key), values)
PM_erase(p, key) == MapErase(p, upper(key))

\* properties(): <<the property map, unsupportedData>>
RECURSIVE propertiesFrom(_, _, _)
propertiesFrom(m, keys, acc) ==
    IF keys = << >> THEN acc
    ELSE LET tag == Head(keys)
             item == m[tag]
             tagName == upper(tag)
             hits == {n \in 1..Len(keyConversions) : keyConversions[n][2] = tagName}
             \* the loop keeps renaming; no usual name is also an APE name
             renamed == IF hits = {} THEN tagName
                        ELSE keyConversions[CHOOSE n \in hits : \A o \in hits : n >= o][1]
         IN  IF item.type # "Text" \/ tagName = << >>
             THEN propertiesFrom(m, Tail(keys), [acc EXCEPT !.unsupported = Append(@, tag)])
             ELSE propertiesFrom(m, Tail(keys),
                     [acc EXCEPT !.map = IF renamed \in DOMAIN @
                                         THEN [@ EXCEPT ![renamed] = @ \o Item_values(item)]
                                         ELSE MapPut(@, renamed, Item_values(item))])

properties(m) ==
    propertiesFrom(m, KeysInOrder(DOMAIN m), [map |-> EmptyMap, unsupported |-> << >>])

\* a first loop that renames nothing
translate_NoAlias(props, n) == props

\* setProperties(), first loop: usual names become APE names
RECURSIVE translate(_, _)
translate(props, n) ==
    IF n > Len(keyConversions) THEN props
    ELSE LET k == keyConversions[n][1]
             t == keyConversions[n][2]
         IN  IF PM_contains(props, k)
             THEN translate(PM_erase(PM_insert(props, t, props[upper(k)]), k), n + 1)
             ELSE translate(props, n + 1)

\* a removal pass that takes items of any type
toRemove_AnyType(m, props) ==
    {k \in DOMAIN m : upper(k) # << >> /\ ~PM_contains(props, upper(k))}

\* setProperties(), second and third loop: text items the new properties lack
toRemove(m, props) ==
    {k \in DOMAIN m : upper(k) # << >> /\ m[k].type = "Text" /\ ~PM_contains(props, upper(k))}

RECURSIVE removeAll(_, _)
removeAll(m, keys) ==
    IF keys = << >> THEN m ELSE removeAll(removeItem(m, Head(keys)), Tail(keys))

RECURSIVE addValues(_, _, _)
addValues(m, key, values) ==
    IF values = << >> THEN m
    ELSE addValues(addValue(m, key, Head(values), FALSE), key, Tail(values))

\* setProperties(), last loop: <<store, invalid>> after the properties in keys
RECURSIVE syncForward(_, _, _)
syncForward(acc, props, keys) ==
    IF keys = << >> THEN acc
    ELSE LET tagName == Head(keys)
             value == props[tagName]
             m == acc.m
         IN  IF ~checkKey(tagName)
             THEN syncForward([acc EXCEPT !.invalid = MapPut(@, tagName, value)], props, Tail(keys))
             ELSE IF ~(tagName \in DOMAIN m) \/ ~(Item_values(m[tagName]) = value)
             THEN syncForward(
                     [acc EXCEPT !.m = IF value = << >>
                                       THEN removeItem(m, tagName)
                                       ELSE addValues(addValue(m, tagName, Head(value), TRUE),
                                                      tagName, Tail(value))],
                     props, Tail(keys))
             ELSE syncForward(acc, props, Tail(keys))

\* setProperties(origProps): [m |-> the store afterwards, invalid |-> the returned map]
setProperties(m, origProps) ==
    LET props == translate(origProps, 1)
        m1 == removeAll(m, KeysInOrder(toRemove(m, props)))
    IN  syncForward([m |-> m1, invalid |-> EmptyMap], props, KeysInOrder(DOMAIN props))

removeUnsupportedProperties(m, keys) == removeAll(m, keys)

----------------------------------------------------------------------------
(* Parser *)

\* the for loop's condition.  The loop is entered with Len(d) >= 11 only, so the
\* unsigned data.size() - 11 does not wrap.
ParseContinues(d, count, st) ==
    st.i < count /\ st.pos <= Len(d) - 11

\* the offset of the next record
advance_NoValue(p, keyLength, valLength) == p + keyLength + 9

advance(p, keyLength, valLength) == p + keyLength + valLength + 9

\* one pass through the body of the for loop; st = [pos, i, m, status, last].
\* The unsigned differences do not wrap: nullPos >= pos + 8, and data.size() -
\* valLength is evaluated only when valLength < data.size() fails to hold, by ||.
ParseStep(d, count, st) ==
    LET nullPos == find(d, 0, st.pos + 8)
    IN  IF nullPos < 0
        THEN [st EXCEPT !.status = "stopped",
                        !.last = [kind |-> "noSeparator", pos |-> st.pos,
                                  keyLength |-> 0, valLength |-> 0]]
        ELSE
        LET keyLength == nullPos - st.pos - 8
            valLength == toUInt(d, st.pos)
        IN  IF valLength >= Len(d) \/ st.pos > Len(d) - valLength
            THEN [st EXCEPT !.status = "stopped",
                            !.last = [kind |-> "badLength", pos |-> st.pos,
                                      keyLength |-> keyLength, valLength |-> valLength]]
            ELSE
            LET valid == /\ keyLength >= MinKeyLength
                         /\ keyLength <= MaxKeyLength
                         /\ isKeyValid(mid(d, st.pos + 8, keyLength))
                item == Item_parse(midToEnd(d, st.pos))
            IN  [pos |-> advance(st.pos, keyLength, valLength),
                 i |-> st.i + 1,
                 m |-> IF valid THEN MapPut(st.m, upper(item.key), item) ELSE st.m,
                 status |-> "loop",
                 last |-> [kind |-> IF valid THEN "stored" ELSE "skipped", pos |-> st.pos,
                           keyLength |-> keyLength, valLength |-> valLength]]

NoRecord == [kind |-> "none", pos |-> 0, keyLength |-> 0, valLength |-> 0]

RECURSIVE ParseLoop(_, _, _)
ParseLoop(d, count, st) ==
    IF st.status = "loop" /\ ParseContinues(d, count, st)
    THEN ParseLoop(d, count, ParseStep(d, count, st))
    ELSE st

\* parse(data) on a tag whose store is m and whose footer holds count
parse(m, d, count) ==
    IF Len(d) < 11 THEN m
    ELSE ParseLoop(d, count, [pos |-> 0, i |-> 0, m |-> m, status |-> "loop", last |-> NoRecord]).m

----------------------------------------------------------------------------
(* Footer, file, read and render *)

\* Footer::size()
Footer_size == 32

APETAGEX == <<65, 80, 69, 84, 65, 71, 69, 88>>

\* Footer(): no tag yet
DefaultFooter == [tagSize |-> 0, itemCount |-> 0, headerPresent |-> FALSE]

\* Footer::render(isHeader): magic, version 2000, tag size, item count, flags, 8 reserved bytes
Footer_render(f, isHeader) ==
    APETAGEX \o fromUInt(2000) \o fromUInt(f.tagSize) \o fromUInt(f.itemCount)
    \o << 0, 0, 0, (IF f.headerPresent THEN 128 ELSE 0) + (IF isHeader THEN 32 ELSE 0) >>
    \o << 0, 0, 0, 0, 0, 0, 0, 0 >>

\* Footer::setData(data): a block shorter than the structure is ignored
Footer_setData(f, block) ==
    IF Len(block) < Footer_size THEN f
    ELSE [tagSize |-> toUInt(block, 12),
          itemCount |-> toUInt(block, 16),
          headerPresent |-> (block[24] \div 128 = 1)]

NoFile == [valid |-> FALSE, bytes |-> << >>]

\* File::seek(offset) from the beginning: the position afterwards.  A negative
\* offset is not a position; the stream keeps its position or clamps to 0.
File_seek(f, offset, position) ==
    IF offset >= 0 THEN {offset} ELSE {position, 0}

\* File::readBlock(length) at position
File_readBlock(f, position, length) == mid(f.bytes, position, length)

\* File::length()
File_length(f) == Len(f.bytes)

\* read(): the outcomes [footer, m, seekTo, body]; body is NoBody when parse() is not called
NoBody == << -1 >>
NoSeek == "none"

read_NoLengthCheck(f, location, m0, footer0) ==
    IF ~f.valid
    THEN {[footer |-> footer0, m |-> m0, seekTo |-> NoSeek, body |-> NoBody]}
    ELSE LET foot == Footer_setData(footer0, File_readBlock(f, location, Footer_size))
         IN  IF foot.tagSize <= Footer_size
             THEN {[footer |-> foot, m |-> m0, seekTo |-> NoSeek, body |-> NoBody]}
             ELSE LET target == location + Footer_size - foot.tagSize
                  IN  {[footer |-> foot,
                        m |-> parse(m0, File_readBlock(f, p, foot.tagSize - Footer_size),
                                    foot.itemCount),
                        seekTo |-> target,
                        body |-> File_readBlock(f, p, foot.tagSize - Footer_size)]
                       : p \in File_seek(f, target, location + Footer_size)}

read(f, location, m0, footer0) ==
    IF ~f.valid
    THEN {[footer |-> footer0, m |-> m0, seekTo |-> NoSeek, body |-> NoBody]}
    ELSE LET foot == Footer_setData(footer0, File_readBlock(f, location, Footer_size))
         IN  IF foot.tagSize <= Footer_size \/ foot.tagSize > File_length(f)
             THEN {[footer |-> foot, m |-> m0, seekTo |-> NoSeek, body |-> NoBody]}
             ELSE LET target == location + Footer_size - foot.tagSize
                  IN  {[footer |-> foot,
                        m |-> parse(m0, File_readBlock(f, p, foot.tagSize - Footer_size),
                                    foot.itemCount),
                        seekTo |-> target,
                        body |-> File_readBlock(f, p, foot.tagSize - Footer_size)]
                       : p \in File_seek(f, target, location + Footer_size)}

\* render(): the item records in map order, and the footer it writes
RECURSIVE renderItems(_, _)
renderItems(m, keys) ==
    IF keys = << >> THEN << >>
    ELSE Item_render(m[Head(keys)]) \o renderItems(m, Tail(keys))

\* render() that counts one item too few
render_CountShort(m, footer0) ==
    LET bytes == renderItems(m, KeysInOrder(DOMAIN m))
        foot == [tagSize |-> Len(bytes) + Footer_size,
                 itemCount |-> Max(Cardinality(DOMAIN m) - 1, 0),
                 headerPresent |-> TRUE]
    IN  [footer |-> foot,
         items |-> bytes,
         bytes |-> Footer_render(foot, TRUE) \o bytes \o Footer_render(foot, FALSE)]

render(m, footer0) ==
    LET bytes == renderItems(m, KeysInOrder(DOMAIN m))
        itemCount == Cardinality(DOMAIN m)
        foot == [tagSize |-> Len(bytes) + Footer_size,
                 itemCount |-> itemCount,
                 headerPresent |-> TRUE]
    IN  [footer |-> foot,
         items |-> bytes,
         bytes |-> Footer_render(foot, TRUE) \o bytes \o Footer_render(foot, FALSE)]

----------------------------------------------------------------------------
(* The parser, record by record, on buffers assembled from item records *)

\* the most records a buffer is assembled from
MaxRecords == 3

\* an item record as it lies in a tag: declared value length, flags, key, NUL, value
Record(declared, flags, key, value) ==
    fromUInt(declared) \o fromUInt(flags) \o key \o << 0 >> \o value

\* The records buffers are assembled from.  sound: the declared value length is the
\* number of value bytes that follow the key's NUL.
RecordOf(name) ==
    CASE name = "AB"    -> [bytes |-> Record(1, 0, <<65, 66>>, <<120>>), key |-> <<65, 66>>, sound |-> TRUE]
      [] name = "ab"    -> [bytes |-> Record(2, 0, <<97, 98>>, <<121, 122>>), key |-> <<97, 98>>, sound |-> TRUE]
      [] name = "CO"    -> [bytes |-> Record(2, 2, <<67, 79>>, <<1, 0>>), key |-> <<67, 79>>, sound |-> TRUE]
      [] name = "EM"    -> [bytes |-> Record(0, 0, <<69, 77>>, << >>), key |-> <<69, 77>>, sound |-> TRUE]
      [] name = "ID3"   -> [bytes |-> Record(1, 0, K_ID3, <<120>>), key |-> K_ID3, sound |-> TRUE]
      [] name = "A"     -> [bytes |-> Record(1, 0, <<65>>, <<120>>), key |-> <<65>>, sound |-> TRUE]
      [] name = "ctl"   -> [bytes |-> Record(1, 0, <<65, 31>>, <<120>>), key |-> <<65, 31>>, sound |-> TRUE]
      \* declares 12 value bytes and holds one
      [] name = "long"  -> [bytes |-> Record(12, 0, <<76, 71>>, <<120>>), key |-> <<76, 71>>, sound |-> FALSE]
      \* declares 0xFFFFFFFF value bytes
      [] name = "huge"  -> [bytes |-> <<255, 255, 255, 255>> \o fromUInt(0) \o <<72, 71, 0, 120>>,
                            key |-> <<72, 71>>, sound |-> FALSE]
      \* a key with no NUL after it
      [] name = "nosep" -> [bytes |-> fromUInt(0) \o fromUInt(0) \o <<78, 83>>, key |-> <<78, 83>>, sound |-> FALSE]

RecordNames == {"AB", "ab", "CO", "EM", "ID3", "A", "ctl", "long", "huge", "nosep"}

RECURSIVE Assemble(_)
Assemble(names) ==
    IF names = << >> THEN << >> ELSE RecordOf(Head(names)).bytes \o Assemble(Tail(names))

Layouts(n) == UNION {[1..k -> RecordNames] : k \in 0..n}

Idle == [op |-> "none"]
NoOut == [state |-> "none"]

InitParse ==
    /\ layout \in Layouts(MaxRecords)
    /\ data = Assemble(layout)
    /\ \E n \in 0..(MaxRecords + 1) :
          footer = [tagSize |-> Len(data) + Footer_size, itemCount |-> n, headerPresent |-> FALSE]
    /\ itemListMap = EmptyMap
    /\ file = NoFile
    /\ footerLocation = 0
    /\ pos = 0
    /\ idx = 0
    /\ pc = "parse_entry"
    /\ trace = << >>
    /\ call = Idle
    /\ out = NoOut

\* the loop's variables as ParseStep takes them
Cursor == [pos |-> pos, i |-> idx, m |-> itemListMap, status |-> "loop", last |-> NoRecord]

\* parse(): the size check before the loop
ParseEnter ==
    /\ pc = "parse_entry"
    /\ pc' = IF Len(data) < 11 THEN "ready" ELSE "parse_loop"
    /\ pos' = 0
    /\ idx' = 0
    /\ UNCHANGED <<itemListMap, footer, file, footerLocation, data, trace, call, out, layout>>

\* parse(): one iteration of the loop
ParseRecord ==
    /\ pc = "parse_loop"
    /\ ParseContinues(data, footer.itemCount, Cursor)
    /\ LET st == ParseStep(data, footer.itemCount, Cursor)
       IN  /\ pos' = st.pos
           /\ idx' = st.i
           /\ itemListMap' = st.m
           /\ trace' = Append(trace, st.last)
           /\ pc' = IF st.status = "stopped" THEN "ready" ELSE "parse_loop"
    /\ UNCHANGED <<footer, file, footerLocation, data, call, out, layout>>

\* parse(): the loop condition fails
ParseFinish ==
    /\ pc = "parse_loop"
    /\ ~ParseContinues(data, footer.itemCount, Cursor)
    /\ pc' = "ready"
    /\ UNCHANGED <<itemListMap, footer, file, footerLocation, data, pos, idx, trace, call, out, layout>>

NextParse == ParseEnter \/ ParseRecord \/ ParseFinish

SpecParse == InitParse /\ [][NextParse]_vars

----------------------------------------------------------------------------
(* Claims about the parser *)

\* The Key Validator as the specification words it: length within [2, 255], every
\* byte in [32, 126], upper-cased form not a reserved word.
KeyValidator(key) ==
    /\ Len(key) >= 2 /\ Len(key) <= 255
    /\ \A k \in 1..Len(key) : key[k] >= 32 /\ key[k] <= 126
    /\ upper(key) \notin {K_ID3, K_TAG, K_OGGS, K_MP}

\* the parser stands before a record: the loop is about to run its body at pos
AtRecord == pc = "parse_loop" /\ idx < footer.itemCount /\ pos + 11 <= Len(data)
SeparatorAt == find(data, 0, pos + 8)
DeclaredLength == toUInt(data, pos)
\* the declared value length is not less than what is left of the buffer at pos
\* (which is also when pos + valueLength reaches or passes the buffer end)
LengthOutOfRange == DeclaredLength >= Len(data) - pos

\* C3: when the record at pos declares a value length that is not less than the
\* remaining buffer size (or pos + valueLength goes past the buffer end), the parse
\* stops there: the store is left as it was, and it never changes afterwards.
C3_StopsOnBadLength ==
    [][ /\ (AtRecord /\ SeparatorAt >= 0 /\ LengthOutOfRange)
           => (pc' = "ready" /\ itemListMap' = itemListMap)
        /\ (pc = "ready" => itemListMap' = itemListMap) ]_vars

\* C9: every record handed to the item decoder lies wholly inside the buffer:
\* pos + 8 + keyLength + 1 + valueLength <= buffer size.
C9_DecodedInsideBuffer ==
    \A k \in 1..Len(trace) :
        trace[k].kind = "stored"
            => trace[k].pos + 8 + trace[k].keyLength + 1 + trace[k].valLength <= Len(data)

\* the records of the layout the parser reaches in step: all before them are sound
InStep(j) == j <= footer.itemCount /\ \A k \in 1..j : RecordOf(layout[k]).sound
SameKeyAfter(j) ==
    {l \in (j + 1)..Len(layout) :
        InStep(l) /\ KeyValidator(RecordOf(layout[l]).key)
        /\ upper(RecordOf(layout[l]).key) = upper(RecordOf(layout[j]).key)}

\* C4, one step: a record with a separator and a sound length whose key fails the
\* validator stores nothing, and the parser goes on at pos + keyLength + valueLength + 9.
C4_SkipsOne ==
    (AtRecord /\ SeparatorAt >= 0 /\ ~LengthOutOfRange
        /\ ~KeyValidator(mid(data, pos + 8, SeparatorAt - pos - 8)))
    => /\ itemListMap' = itemListMap
       /\ pos' = pos + (SeparatorAt - pos - 8) + DeclaredLength + 9
       /\ idx' = idx + 1
       /\ pc' = "parse_loop"

\* C4, the whole parse: every sound record with a valid key that lies within the item
\* count, whatever invalid-key records precede it, is in the store at the end (the last
\* one of a key, decoded from its own bytes).
C4_LaterStored ==
    pc = "ready" =>
        \A j \in 1..Len(layout) :
            (InStep(j) /\ KeyValidator(RecordOf(layout[j]).key))
            => /\ upper(RecordOf(layout[j]).key) \in DOMAIN itemListMap
               /\ ((\A k \in 1..Len(layout) : RecordOf(layout[k]).sound) /\ SameKeyAfter(j) = {})
                    => itemListMap[upper(RecordOf(layout[j]).key)] = Item_parse(RecordOf(layout[j]).bytes)

\* C4: parser skip-one on a bad key
C4_SkipOneOnBadKey == [](C4_LaterStored) /\ [][C4_SkipsOne]_vars

\* a finished parse that skipped a record and stored a later one
C4_Witness ==
    /\ pc = "ready"
    /\ \E a, b \in 1..Len(trace) :
          a < b /\ trace[a].kind = "skipped" /\ trace[b].kind = "stored"
          /\ InStep(b) /\ ~KeyValidator(RecordOf(layout[a]).key)

----------------------------------------------------------------------------
(* Construction bound to a file: read() *)

\* the most records in a file's tag body, and the most bytes before the body and
\* after the footer
MaxBodyRecords == 2
MaxPad == 2

BodyRecordNames == {"AB", "CO", "ID3", "long"}

Pad(n) == SubSeq([k \in 1..n |-> 255], 1, n)

\* a file: pre bytes, the item records, a footer carrying tagSize and count, post bytes
FileOf(l) ==
    [valid |-> l.valid,
     bytes |-> Pad(l.pre) \o Assemble(l.body)
               \o Footer_render([tagSize |-> l.tagSize, itemCount |-> l.count,
                                 headerPresent |-> FALSE], FALSE)
               \o Pad(l.post)]

\* the tag sizes a footer block may carry: none, the structure alone, the true one,
\* ones reaching to and before the start of the file, the file length and beyond
TagSizes(pre, bodyLen, post) ==
    {0, Footer_size, Footer_size + 1, bodyLen + Footer_size,
     pre + bodyLen + Footer_size, pre + bodyLen + Footer_size + 1,
     pre + bodyLen + Footer_size + post, pre + bodyLen + Footer_size + post + 1,
     2147483647}

InitRead ==
    /\ \E v \in BOOLEAN, pre \in 0..MaxPad, post \in 0..MaxPad,
          body \in UNION {[1..k -> BodyRecordNames] : k \in 0..MaxBodyRecords} :
          \E ts \in TagSizes(pre, Len(Assemble(body)), post) :
              layout = [valid |-> v, pre |-> pre, body |-> body, count |-> Len(body),
                        tagSize |-> ts, post |-> post]
    /\ file = FileOf(layout)
    /\ footerLocation = layout.pre + Len(Assemble(layout.body))
    /\ footer = DefaultFooter
    /\ itemListMap = EmptyMap
    /\ data = << >>
    /\ pos = 0
    /\ idx = 0
    /\ pc = "constructing"
    /\ trace = [seekTo |-> NoSeek, body |-> NoBody]
    /\ call = Idle
    /\ out = NoOut

\* Tag(file, footerLocation): read()
Read ==
    /\ pc = "constructing"
    /\ \E o \in read(file, footerLocation, itemListMap, footer) :
          /\ footer' = o.footer
          /\ itemListMap' = o.m
          /\ trace' = [seekTo |-> o.seekTo, body |-> o.body]
          /\ data' = IF o.body = NoBody THEN data ELSE o.body
    /\ pc' = "ready"
    /\ call' = [op |-> "read"]
    /\ UNCHANGED <<file, footerLocation, pos, idx, out, layout>>

NextRead == Read

SpecRead == InitRead /\ [][NextRead]_vars

\* C8: when the tagSize the footer block carries is not greater than the footer
\* structure or is larger than the file, the store stays empty and no body bytes
\* reach the parser.
C8_NoTagOnBadSize ==
    (pc = "ready" /\ call.op = "read"
        /\ (layout.tagSize <= 32 \/ layout.tagSize > Len(file.bytes)))
    => (itemListMap = EmptyMap /\ trace.body = NoBody /\ trace.seekTo = NoSeek)

\* a valid file whose footer reports a tag larger than the file, read
C8_Witness ==
    /\ pc = "ready" /\ call.op = "read" /\ file.valid
    /\ layout.tagSize > Len(file.bytes)
    /\ layout.body # << >>
    /\ itemListMap = EmptyMap

\* C10: whenever a body is read, the seek target footerOffset + footerSize - tagSize
\* is a non-negative offset and the body region lies wholly within the file.
C10_BodyInsideFile ==
    (pc = "ready" /\ call.op = "read" /\ trace.body # NoBody)
    => /\ trace.seekTo >= 0
       /\ trace.seekTo + (layout.tagSize - 32) <= Len(file.bytes)

----------------------------------------------------------------------------
(* The public calls on a constructed tag.  A call runs to its end in one step and
   leaves what it was given and what the store was in call; Resume is the caller
   going on. *)

\* the most items a store holds and the most values a text item holds in the model
MaxItems == 2
MaxValues == 2

WithinBounds(m) ==
    /\ Cardinality(DOMAIN m) <= MaxItems
    /\ \A k \in DOMAIN m : Len(m[k].text) <= MaxValues

StoreFrame == UNCHANGED <<file, footerLocation, data, pos, idx, trace, layout>>

Returned(record) ==
    /\ pc = "ready"
    /\ pc' = "returned"
    /\ call' = record
    /\ StoreFrame

Resume ==
    /\ pc = "returned"
    /\ pc' = "ready"
    /\ call' = Idle
    /\ out' = NoOut
    /\ UNCHANGED <<itemListMap, footer>>
    /\ StoreFrame

SetItem(key, item) ==
    /\ itemListMap' = setItem(itemListMap, key, item)
    /\ WithinBounds(itemListMap')
    /\ Returned([op |-> "setItem", key |-> key, item |-> item, pre |-> itemListMap])
    /\ UNCHANGED <<footer, out>>

AddValue(key, value, replace) ==
    /\ itemListMap' = addValue(itemListMap, key, value, replace)
    /\ WithinBounds(itemListMap')
    /\ Returned([op |-> "addValue", key |-> key, value |-> value, replace |-> replace,
                 pre |-> itemListMap])
    /\ UNCHANGED <<footer, out>>

SetData(key, value) ==
    /\ itemListMap' = setData(itemListMap, key, value)
    /\ WithinBounds(itemListMap')
    /\ Returned([op |-> "setData", key |-> key, value |-> value, pre |-> itemListMap])
    /\ UNCHANGED <<footer, out>>

RemoveItem(key) ==
    /\ itemListMap' = removeItem(itemListMap, key)
    /\ Returned([op |-> "removeItem", key |-> key, pre |-> itemListMap])
    /\ UNCHANGED <<footer, out>>

SetTyped(name, after, arg) ==
    /\ itemListMap' = after
    /\ WithinBounds(itemListMap')
    /\ Returned([op |-> name, value |-> arg, pre |-> itemListMap])
    /\ UNCHANGED <<footer, out>>

SetTitle(s)   == SetTyped("setTitle", setTitle(itemListMap, s), s)
SetArtist(s)  == SetTyped("setArtist", setArtist(itemListMap, s), s)
SetAlbum(s)   == SetTyped("setAlbum", setAlbum(itemListMap, s), s)
SetComment(s) == SetTyped("setComment", setComment(itemListMap, s), s)
SetGenre(s)   == SetTyped("setGenre", setGenre(itemListMap, s), s)
SetYear(i)    == SetTyped("setYear", setYear(itemListMap, i), i)
SetTrack(i)   == SetTyped("setTrack", setTrack(itemListMap, i), i)

GetTyped(name, result) ==
    /\ Returned([op |-> name, result |-> result])
    /\ UNCHANGED <<itemListMap, footer, out>>

Title   == GetTyped("title", title(itemListMap))
Artist  == GetTyped("artist", artist(itemListMap))
Album   == GetTyped("album", album(itemListMap))
Comment == GetTyped("comment", comment(itemListMap))
Genre   == GetTyped("genre", genre(itemListMap))
Year    == GetTyped("year", year(itemListMap))
Track   == GetTyped("track", track(itemListMap))

Properties ==
    /\ Returned([op |-> "properties", result |-> properties(itemListMap)])
    /\ UNCHANGED <<itemListMap, footer, out>>

SetProperties(props) ==
    /\ itemListMap' = setProperties(itemListMap, props).m
    /\ WithinBounds(itemListMap')
    /\ Returned([op |-> "setProperties", props |-> props, pre |-> itemListMap,
                 result |-> setProperties(itemListMap, props).invalid])
    /\ UNCHANGED <<footer, out>>

RemoveUnsupportedProperties(keys) ==
    /\ itemListMap' = removeUnsupportedProperties(itemListMap, keys)
    /\ Returned([op |-> "removeUnsupportedProperties", keys |-> keys, pre |-> itemListMap])
    /\ UNCHANGED <<footer, out>>

\* render(): the footer is rewritten, the bytes go to the caller
Render ==
    /\ footer' = render(itemListMap, footer).footer
    /\ out' = [state |-> "rendered",
               items |-> render(itemListMap, footer).items,
               bytes |-> render(itemListMap, footer).bytes]
    /\ Returned([op |-> "render"])
    /\ UNCHANGED itemListMap

\* a fresh tag parses the item records of the last render(), with the item count
\* render() wrote to the footer
Reparse ==
    /\ pc = "returned"
    /\ out.state = "rendered"
    /\ out' = [out EXCEPT !.state = "reparsed",
                          !.bytes = << >>,
                          !.items = parse(EmptyMap, out.items, footer.itemCount)]
    /\ UNCHANGED <<itemListMap, footer, pc, call>>
    /\ StoreFrame

\* the stores a tag can hold once constructed: empty, or read from a tag body of
\* at most one record
ConstructedStores ==
    {parse(EmptyMap, Assemble(l), Len(l)) : l \in UNION {[1..k -> {"AB", "ID3", "A", "ctl"}] : k \in 0..1}}

InitStore(stores) ==
    /\ itemListMap \in stores
    /\ footer = DefaultFooter
    /\ file = NoFile
    /\ footerLocation = 0
    /\ data = << >>
    /\ pos = 0
    /\ idx = 0
    /\ pc = "ready"
    /\ trace = << >>
    /\ call = Idle
    /\ out = NoOut
    /\ layout = << >>

----------------------------------------------------------------------------
(* The item store under every mutator, with keys of every kind *)

LongKey(n) == SubSeq([k \in 1..n |-> 75], 1, n)

LongestKey == LongKey(MaxKeyLength)
TooLongKey == LongKey(MaxKeyLength + 1)

\* TITLE, cover; id3 (reserved) and A (too short)
KeyInputs == {K_TITLE, <<99, 111, 118, 101, 114>>, <<105, 100, 51>>, <<65>>}

\* more keys for setItem: A<US> and A<e-acute> (a byte out of range on either side),
\* the longest key allowed and a key one byte longer
MoreKeyInputs == {<<65, 31>>, <<65, 233>>, LongestKey, TooLongKey}

ValueInputs == {<< >>, <<97>>}
DataInputs == {<< >>, <<1>>}
ItemInputs ==
    {DefaultItem,
     [key |-> <<67, 79, 86, 69, 82>>, type |-> "Locator", text |-> << >>, value |-> <<1>>, readOnly |-> TRUE]}
NumberInputs == {0, 7}
PropertyInputs ==
    {EmptyMap} \cup {MapPut(EmptyMap, k, v) :
                        k \in {K_TITLE, K_TRACKNUMBER, K_ID3, <<65>>}, v \in {<< >>, << <<97>> >>}}

UnsupportedInputs == {<< <<99, 111, 118, 101, 114>> >>, << <<116, 105, 116, 108, 101>>, <<65>> >>}

Init == InitStore(ConstructedStores)

Next ==
    \/ \E k \in KeyInputs \cup MoreKeyInputs, it \in ItemInputs : SetItem(k, it)
    \/ \E k \in KeyInputs, v \in ValueInputs, r \in BOOLEAN : AddValue(k, v, r)
    \/ \E k \in KeyInputs, v \in DataInputs : SetData(k, v)
    \/ \E k \in KeyInputs : RemoveItem(k)
    \/ \E v \in ValueInputs : SetTitle(v) \/ SetGenre(v)
    \/ \E i \in NumberInputs : SetTrack(i)
    \/ \E p \in PropertyInputs : SetProperties(p)
    \/ \E keys \in UnsupportedInputs : RemoveUnsupportedProperties(keys)
    \/ Resume

Spec == Init /\ [][Next]_vars

\* the calls that take a key from the caller
KeyedCalls == {"setItem", "addValue", "setData", "removeItem"}

\* C2: every key under which the store holds an item is upper-cased and passes the
\* Key Validator, and a mutator called with a key that fails the validator has left
\* the store as it was.
C2_KeysValid ==
    /\ \A k \in DOMAIN itemListMap :
          /\ \A n \in 1..Len(k) : k[n] < 97 \/ k[n] > 122
          /\ KeyValidator(k)
    /\ (pc = "returned" /\ call.op \in KeyedCalls /\ ~KeyValidator(call.key))
          => itemListMap = call.pre

\* setItem() was called with a key one byte too long on a store holding an item read
\* from a tag body, and the store is as before
C2_Witness ==
    /\ pc = "returned" /\ call.op = "setItem"
    /\ Len(call.key) = 256
    /\ call.pre # EmptyMap
    /\ itemListMap = call.pre


----------------------------------------------------------------------------
(* The typed accessors, on stores built by the typed setters, by addValue() appending
   further values and by setData() *)

TextInputs == {<< >>, <<97>>}
AppendInputs == {<<98>>}

InitTyped == InitStore({EmptyMap})

NextTyped ==
    \/ \E v \in TextInputs :
          SetTitle(v) \/ SetArtist(v) \/ SetAlbum(v) \/ SetComment(v) \/ SetGenre(v)
    \/ \E i \in NumberInputs : SetYear(i) \/ SetTrack(i)
    \/ \E k \in {K_TITLE, K_GENRE}, v \in AppendInputs : AddValue(k, v, FALSE)
    \/ SetData(K_TITLE, <<1>>)
    \/ Title \/ Artist \/ Album \/ Comment \/ Genre \/ Year \/ Track
    \/ Resume

SpecTyped == InitTyped /\ [][NextTyped]_vars

StringGetters == {"title", "artist", "album", "comment", "genre"}
FixedKey(op) ==
    CASE op = "title" -> K_TITLE [] op = "artist" -> K_ARTIST [] op = "album" -> K_ALBUM
      [] op = "comment" -> K_COMMENT [] op = "genre" -> K_GENRE

\* the values of a list, each two neighbours with one space between them
RECURSIVE SpaceJoined(_)
SpaceJoined(l) ==
    IF Len(l) = 0 THEN << >>
    ELSE IF Len(l) = 1 THEN l[1]
    ELSE SpaceJoined(SubSeq(l, 1, Len(l) - 1)) \o << 32 >> \o l[Len(l)]

\* C7 as claimed: a typed string getter returns the first value of the Text item
\* under its fixed key, and the empty string when no item is stored under that key.
C7_FirstValue ==
    (pc = "returned" /\ call.op \in StringGetters) =>
        LET key == FixedKey(call.op)
        IN  /\ key \notin DOMAIN itemListMap => call.result = << >>
            /\ (key \in DOMAIN itemListMap /\ itemListMap[key].type = "Text"
                  /\ itemListMap[key].text # << >>)
                => call.result = itemListMap[key].text[1]

\* C7: a typed string getter returns the values of the Text item under its fixed key
\* joined by single spaces (the one value, when there is one), and the empty string
\* when no item is stored under that key.
C7_AllValuesJoined ==
    (pc = "returned" /\ call.op \in StringGetters) =>
        LET key == FixedKey(call.op)
        IN  /\ key \notin DOMAIN itemListMap => call.result = << >>
            /\ (key \in DOMAIN itemListMap /\ itemListMap[key].type = "Text")
                => call.result = SpaceJoined(itemListMap[key].text)

\* title() on a TITLE item of two values, the second appended by addValue()
C7_Witness ==
    /\ pc = "returned" /\ call.op = "title"
    /\ K_TITLE \in DOMAIN itemListMap
    /\ itemListMap[K_TITLE].text = << <<97>>, <<98>> >>
    /\ call.result = <<97, 32, 98>>

----------------------------------------------------------------------------
(* The property bridge: setProperties() on stores holding text items, binary and
   locator items, an empty text item and a binary item that kept text values *)

CoverKey == <<67, 79, 86, 69, 82>>

\* set by setItem(): a locator, Item(), and Item(key, "a") after setType(Binary),
\* which keeps its text value
BridgeItems ==
    {[key |-> CoverKey, type |-> "Locator", text |-> << >>, value |-> <<1>>, readOnly |-> FALSE],
     DefaultItem,
     [key |-> CoverKey, type |-> "Binary", text |-> << <<97>> >>, value |-> << >>, readOnly |-> FALSE]}

PropertyKeys == {K_TITLE, K_TRACKNUMBER, K_TRACK, CoverKey, K_ID3}
PropertyValues == {<< >>, << <<97>> >>, << <<98>>, <<97>> >>, << << >> >>}

\* the incoming maps: no key, one key, and two keys holding a and b
PropertyMaps ==
    {EmptyMap}
    \cup {MapPut(EmptyMap, k, v) : k \in PropertyKeys, v \in PropertyValues}
    \cup {MapPut(MapPut(EmptyMap, k[1], << <<97>> >>), k[2], << <<98>> >>) :
             k \in {q \in PropertyKeys \X PropertyKeys : q[1] # q[2]}}

InitProps == InitStore({EmptyMap})

NextProps ==
    \/ \E p \in PropertyMaps : SetProperties(p)
    \/ \E k \in {K_TRACK, CoverKey} : SetData(k, <<1>>)
    \/ \E k \in {K_TITLE, CoverKey}, it \in BridgeItems : SetItem(k, it)
    \/ SetGenre(<<97>>)
    \/ Properties
    \/ Resume

SpecProps == InitProps /\ [][NextProps]_vars

\* the alias table read both ways: canonical name to on-disk name and back
OnDisk(k) ==
    IF \E n \in 1..Len(keyConversions) : keyConversions[n][1] = k
    THEN keyConversions[CHOOSE n \in 1..Len(keyConversions) : keyConversions[n][1] = k][2]
    ELSE k
CanonicalOf(t) ==
    IF \E n \in 1..Len(keyConversions) : keyConversions[n][2] = t
    THEN keyConversions[CHOOSE n \in 1..Len(keyConversions) : keyConversions[n][2] = t][1]
    ELSE t

\* the keys of an incoming map translated to on-disk names, and the values that come
\* in for an on-disk key: those under the key itself, then those under its canonical name
TranslatedKeys(props) == {OnDisk(k) : k \in DOMAIN props}
Incoming(props, t) ==
    (IF t \in DOMAIN props /\ OnDisk(t) = t THEN props[t] ELSE << >>)
    \o (IF CanonicalOf(t) # t /\ CanonicalOf(t) \in DOMAIN props THEN props[CanonicalOf(t)] ELSE << >>)

SetPropertiesReturned == pc = "returned" /\ call.op = "setProperties"

\* C5 as claimed: every Binary or Locator item present before setProperties(map) is
\* present afterwards under the same key with the same type and value, whatever the map.
C5_NonTextUntouched ==
    SetPropertiesReturned =>
        \A k \in DOMAIN call.pre :
            call.pre[k].type \in {"Binary", "Locator"}
            => (k \in DOMAIN itemListMap /\ itemListMap[k] = call.pre[k])

\* C5: every Binary or Locator item present before setProperties(map) whose key is
\* not a key of the translated map is present afterwards under the same key with
\* the same type and value.
C5_NonTextKeptUnlessNamed ==
    SetPropertiesReturned =>
        \A k \in DOMAIN call.pre :
            (call.pre[k].type \in {"Binary", "Locator"} /\ k \notin TranslatedKeys(call.props))
            => (k \in DOMAIN itemListMap /\ itemListMap[k] = call.pre[k])

\* setProperties() with a map of values removed the text item GENRE and kept the
\* binary or locator item COVER
C5_Witness ==
    /\ SetPropertiesReturned
    /\ call.props # EmptyMap /\ CoverKey \notin TranslatedKeys(call.props)
    /\ K_GENRE \in DOMAIN call.pre /\ K_GENRE \notin DOMAIN itemListMap
    /\ CoverKey \in DOMAIN call.pre /\ call.pre[CoverKey].type \in {"Binary", "Locator"}
    /\ CoverKey \in DOMAIN itemListMap /\ itemListMap[CoverKey] = call.pre[CoverKey]

\* the translated keys that pass the Key Validator and bring values
Bringing(props) ==
    {t \in TranslatedKeys(props) : KeyValidator(t) /\ Incoming(props, t) # << >>}

\* C6 as claimed: after setProperties(map) the store holds, for every translated key
\* that passes the Key Validator and has a non-empty value sequence, a Text item with
\* exactly that sequence, and no Text item under any other key; properties() then
\* returns the incoming map for its valid keys.
C6_TextMatchesMap ==
    SetPropertiesReturned =>
        /\ \A t \in Bringing(call.props) :
              /\ t \in DOMAIN itemListMap
              /\ itemListMap[t].type = "Text"
              /\ itemListMap[t].text = Incoming(call.props, t)
        /\ \A k \in DOMAIN itemListMap :
              itemListMap[k].type = "Text" => k \in Bringing(call.props)
        /\ \A k \in DOMAIN call.props :
              (KeyValidator(k) /\ call.props[k] # << >>)
              => /\ k \in DOMAIN properties(itemListMap).map
                 /\ properties(itemListMap).map[k] = call.props[k]

\* no empty string among the values of the map
NoEmptyValue(props) ==
    \A k \in DOMAIN props : \A n \in 1..Len(props[k]) : props[k][n] # << >>
\* the items that are not Text hold no text values
TextOnlyInText(m) ==
    \A k \in DOMAIN m : m[k].type # "Text" => m[k].text = << >>

\* C6: for a map without empty strings and a store whose items that are not Text hold
\* no text values, after setProperties(map) the store holds, for every translated key
\* that passes the Key Validator and has a non-empty value sequence, a Text item with
\* exactly that sequence, and every Text item under any other key holds no value;
\* properties() then returns these sequences under the canonical names of their keys
\* and no value under any other key.
C6_TextMatchesTranslated ==
    (SetPropertiesReturned /\ NoEmptyValue(call.props) /\ TextOnlyInText(call.pre)) =>
        /\ \A t \in Bringing(call.props) :
              /\ t \in DOMAIN itemListMap
              /\ itemListMap[t].type = "Text"
              /\ itemListMap[t].text = Incoming(call.props, t)
        /\ \A k \in DOMAIN itemListMap :
              (itemListMap[k].type = "Text" /\ itemListMap[k].text # << >>)
              => k \in Bringing(call.props)
        /\ \A t \in Bringing(call.props) :
              /\ CanonicalOf(t) \in DOMAIN properties(itemListMap).map
              /\ properties(itemListMap).map[CanonicalOf(t)] = Incoming(call.props, t)
        /\ \A k \in DOMAIN properties(itemListMap).map :
              properties(itemListMap).map[k] # << >>
              => \E t \in Bringing(call.props) : k = CanonicalOf(t)

\* setProperties({TRACKNUMBER: [b, a]}) on a store holding a text item GENRE: the
\* item went, TRACK holds b and a, and properties() names it TRACKNUMBER
C6_Witness ==
    /\ SetPropertiesReturned
    /\ K_GENRE \in DOMAIN call.pre /\ K_GENRE \notin DOMAIN itemListMap
    /\ K_TRACKNUMBER \in DOMAIN call.props
    /\ K_TRACK \in DOMAIN itemListMap
    /\ itemListMap[K_TRACK].text = << <<98>>, <<97>> >>
    /\ properties(itemListMap).map[K_TRACKNUMBER] = << <<98>>, <<97>> >>

----------------------------------------------------------------------------
(* Round trip: a store built by setItem(), addValue() and setData(), rendered, and
   the item records parsed by a fresh tag *)

\* AB and cd
RoundTripKeys == {<<65, 66>>, <<99, 100>>}
\* a, and e-acute (two bytes in UTF-8)
RoundTripValues == {<<97>>, <<233>>}
\* Item(), Item("AB", "a"), Item("CD", ["a", ""]) and a read-only locator "CD"
RoundTripItems ==
    {DefaultItem,
     Item_fromString(<<65, 66>>, <<97>>),
     Item_fromStringList(<<67, 68>>, << <<97>>, << >> >>),
     [key |-> <<67, 68>>, type |-> "Locator", text |-> << >>, value |-> <<1, 0>>, readOnly |-> TRUE]}

InitRoundTrip == InitStore({EmptyMap})

NextRoundTrip ==
    \/ \E it \in RoundTripItems : SetItem(<<99, 100>>, it)
    \/ \E k \in RoundTripKeys, v \in RoundTripValues : AddValue(k, v, FALSE)
    \/ SetData(<<99, 100>>, <<1, 0>>)
    \/ Render
    \/ Reparse
    \/ Resume

SpecRoundTrip == InitRoundTrip /\ [][NextRoundTrip]_vars

\* the same keys, and under each key the same type and the same values
SameContent(p, m) ==
    /\ DOMAIN p = DOMAIN m
    /\ \A k \in DOMAIN m :
          p[k].type = m[k].type /\ p[k].text = m[k].text /\ p[k].value = m[k].value

\* every item carries a key that passes the Key Validator
ValidItems(m) == \A k \in DOMAIN m : KeyValidator(m[k].key)

\* C1 as claimed: for a store built from valid items through setItem(), addValue()
\* and setData(), parsing the item records of render() with the item count render()
\* wrote gives a store of the same keys, types and values.
C1_RoundTrip ==
    (out.state = "reparsed" /\ ValidItems(itemListMap)) => SameContent(out.items, itemListMap)

\* every item is not empty, carries a key that upper-cases to the key it is stored
\* under, and, when Text, holds only non-empty strings without NUL
Faithful(m) ==
    \A k \in DOMAIN m :
        /\ Len(m[k].key) = Len(k)
        /\ \A n \in 1..Len(k) :
              k[n] = IF m[k].key[n] >= 97 /\ m[k].key[n] <= 122 THEN m[k].key[n] - 32 ELSE m[k].key[n]
        /\ IF m[k].type = "Text"
           THEN /\ m[k].text # << >>
                /\ \A n \in 1..Len(m[k].text) :
                      m[k].text[n] # << >> /\ \A c \in 1..Len(m[k].text[n]) : m[k].text[n][c] # 0
           ELSE m[k].value # << >>

\* C1: for a store built through setItem(), addValue() and setData() in which every
\* item is not empty, carries a key that upper-cases to the key it is stored under
\* and, when Text, holds only non-empty strings without NUL, parsing the item records
\* of render() with the item count render() wrote gives a store of the same keys,
\* types and values.
C1_RoundTripOwnKey ==
    (out.state = "reparsed" /\ Faithful(itemListMap)) => SameContent(out.items, itemListMap)

\* a store of a text item of two values, one of them not ASCII, and a locator, both
\* under their own keys, rendered and parsed back
C1_Witness ==
    /\ out.state = "reparsed"
    /\ Faithful(itemListMap)
    /\ Cardinality(DOMAIN itemListMap) = 2
    /\ \E k \in DOMAIN itemListMap : itemListMap[k].type = "Locator"
    /\ \E k \in DOMAIN itemListMap : itemListMap[k].text = << <<97>>, <<233>> >>
    /\ SameContent(out.items, itemListMap)

============================================================================
